---- MODULE Spec2Model ----
(***************************************************************************)
(* Model of src/bot.py: a Telegram bot relaying text and photo questions   *)
(* to a generative backend.  Texts are sequences of characters (one-char   *)
(* strings); the three bullet glyphs of format_answer are written by their *)
(* code points because the module is ASCII.  Byte strings are sequences of *)
(* two-digit hex strings.                                                  *)
(*                                                                         *)
(* An outbound call (reply_text, send_chat_action, get_file, download,     *)
(* generate_content) either returns, having had its effect, or raises,     *)
(* having had none.  Every call the handler of the current event makes is  *)
(* appended to `calls` with its outcome.                                   *)
(***************************************************************************)
EXTENDS Integers, Sequences, FiniteSets, TLC

VARIABLES kind, pc, chat, chatType, msg, args, photo,
          text, img_bytes, ans, formatted, calls, raisedAt,
          fin, fout, fout2, fpc

vars == <<kind, pc, chat, chatType, msg, args, photo,
          text, img_bytes, ans, formatted, calls, raisedAt,
          fin, fout, fout2, fpc>>

hvars == <<kind, pc, chat, chatType, msg, args, photo,
           text, img_bytes, ans, formatted, calls, raisedAt>>

fvars == <<fin, fout, fout2, fpc>>

--------------------------------------------------------------------------
(* Bounds *)

MaxMsgLen == 5
MaxArgs == 2
MaxPhotos == 2
MaxPart == 2
MaxRun == 5

--------------------------------------------------------------------------
(* Characters and fixed texts *)

NL == "\n"
BULLET == "U+2022"
BLACK_CIRCLE == "U+25CF"
SMALL_SQUARE == "U+25AA"

None == <<"None">>

BOT_USERNAME == <<"b">>

UsageMsg == <<"U", "s", "a", "g", "e", ":", " ", "/", "s", "o", "l", "v", "e", " ", "<", "q", "u", "e", "s", "t", "i", "o", "n", "s", ">">>

FailMsg == <<"I", "m", "a", "g", "e", " ", "p", "r", "o", "c", "e", "s", "s", "i", "n", "g", " ", "f", "a", "i", "l", "e", "d", ".">>

StartMsg == <<"S", "e", "n", "d", " ", "t", "e", "x", "t", " ", "o", "r", " ", "i", "m", "a", "g", "e", " ", "o", "f", " ", "y", "o", "u", "r", " ", "q", "u", "e", "s", "t", "i", "o", "n", " ", "p", "a", "p", "e", "r", ".", "\n", "I", "n", " ", "g", "r", "o", "u", "p", "s", ":", " ", "m", "e", "n", "t", "i", "o", "n", " ", "m", "e", " ", "@">> \o BOT_USERNAME \o <<" ", "o", "r", " ", "u", "s", "e", " ", "/", "s", "o", "l", "v", "e", ".">>

--------------------------------------------------------------------------
(* Python str operations used by the program *)

IsSpace(c) == c \in {" ", NL}

RECURSIVE LStrip(_)
LStrip(s) == IF s # <<>> /\ IsSpace(Head(s)) THEN LStrip(Tail(s)) ELSE s

RECURSIVE RStrip(_)
RStrip(s) == IF s # <<>> /\ IsSpace(s[Len(s)]) THEN RStrip(SubSeq(s, 1, Len(s) - 1)) ELSE s

Strip(s) == RStrip(LStrip(s))

StartsWith(s, p) == Len(s) >= Len(p) /\ SubSeq(s, 1, Len(p)) = p

Contains(s, sub) == \E i \in 1..(Len(s) - Len(sub) + 1) : SubSeq(s, i, i + Len(sub) - 1) = sub

\* str.replace(old, new) for non-empty old: leftmost, non-overlapping, one pass
RECURSIVE Replace(_, _, _)
Replace(s, old, new) ==
    IF Len(s) < Len(old) THEN s
    ELSE IF StartsWith(s, old)
         THEN new \o Replace(SubSeq(s, Len(old) + 1, Len(s)), old, new)
         ELSE <<Head(s)>> \o Replace(Tail(s), old, new)

\* variant: "".join(args)
RECURSIVE JoinNoSeparator(_)
JoinNoSeparator(ws) == IF ws = <<>> THEN <<>> ELSE ws[1] \o JoinNoSeparator(Tail(ws))

RECURSIVE Join(_)
Join(ws) == IF ws = <<>> THEN <<>>
            ELSE IF Len(ws) = 1 THEN ws[1]
            ELSE ws[1] \o <<" ">> \o Join(Tail(ws))

--------------------------------------------------------------------------
(* format_answer *)

NL2 == <<NL, NL>>
NL3 == <<NL, NL, NL>>

\* variant: the third glyph is not replaced
ReplaceTwoBullets(a) == Replace(Replace(a, <<BULLET>>, <<"-">>), <<BLACK_CIRCLE>>, <<"-">>)

ReplaceBullets(a) == Replace(Replace(Replace(a, <<BULLET>>, <<"-">>), <<BLACK_CIRCLE>>, <<"-">>), <<SMALL_SQUARE>>, <<"-">>)

\* variant: a single replace instead of the while loop
CollapseOnce(a) == Replace(a, NL3, NL2)

RECURSIVE CollapseBlankLines(_)
CollapseBlankLines(a) == IF Contains(a, NL3) THEN CollapseBlankLines(Replace(a, NL3, NL2)) ELSE a

format_answer(a) == CollapseBlankLines(ReplaceBullets(Strip(a)))

--------------------------------------------------------------------------
(* Inputs of the formatter specification: a head of up to MaxPart          *)
(* characters, a run of up to MaxRun newlines, a shorter tail              *)

FChars == {"a", " ", NL, BULLET, BLACK_CIRCLE, SMALL_SQUARE}

SeqsUpTo(S, n) == UNION {[1..k -> S] : k \in 0..n}

Newlines(k) == [i \in 1..k |-> NL]

FormatInputs == {p \o Newlines(k) \o q : p \in SeqsUpTo(FChars, MaxPart), k \in 0..MaxRun, q \in SeqsUpTo(FChars, MaxPart - 1)}

HIdle == /\ kind = "none" /\ pc = "idle" /\ chat = 0 /\ chatType = "private"
         /\ msg = <<>> /\ args = <<>> /\ photo = <<>> /\ text = <<>>
         /\ img_bytes = <<>> /\ ans = None /\ formatted = <<>>
         /\ calls = <<>> /\ raisedAt = "none"

FInit == HIdle /\ fin \in FormatInputs /\ fout = <<>> /\ fout2 = <<>> /\ fpc = "in"

FormatOnce == /\ fpc = "in"
              /\ fout' = format_answer(fin)
              /\ fpc' = "once"
              /\ UNCHANGED <<fin, fout2>>
              /\ UNCHANGED hvars

FormatTwice == /\ fpc = "once"
               /\ fout2' = format_answer(fout)
               /\ fpc' = "twice"
               /\ UNCHANGED <<fin, fout>>
               /\ UNCHANGED hvars

FNext == FormatOnce \/ FormatTwice

FSpec == FInit /\ [][FNext]_vars

--------------------------------------------------------------------------
(* to_jpeg.  Image.open / convert / save belong to the imaging library: a  *)
(* byte string is decodable when it starts with an image signature, and    *)
(* re-encoding yields a JPEG stream that differs from the input.           *)

Bytes == {"00", "ff"}

MaxBytes == 2

Blobs == SeqsUpTo(Bytes, MaxBytes)

Decodable(b) == b # <<>> /\ Head(b) = "ff"

JpegOf(b) == <<"ff", "d8">> \o Tail(b)

\* variant: an empty buffer is returned when decoding fails
to_jpeg_EmptyOnFailure(b) == IF Decodable(b) THEN JpegOf(b) ELSE <<>>

to_jpeg(b) == IF Decodable(b) THEN JpegOf(b) ELSE b

--------------------------------------------------------------------------
(* Inbound events and backend results *)

Chats == {1, 2}

ChatTypes == {"private", "group", "supergroup"}

MsgChars == {"@", "b", " ", "x"}

\* filters.TEXT passes only messages with a non-empty text
Messages == SeqsUpTo(MsgChars, MaxMsgLen) \ {<<>>}

Words == {<<"x">>, <<"y", "z">>}

ArgLists == SeqsUpTo(Words, MaxArgs)

\* filters.PHOTO passes only messages that carry at least one photo size
PhotoLists == SeqsUpTo(Blobs, MaxPhotos) \ {<<>>}

Answers == {<<"a">>, <<" ", BULLET, "a", NL, NL, NL, "b", NL>>}

\* response.text of generate_content: a text or None; or the call raises
BackendResults == {[ok |-> TRUE, text |-> a] : a \in Answers \cup {None}} \cup {[ok |-> FALSE, text |-> None]}

Mention == <<"@">> \o BOT_USERNAME

--------------------------------------------------------------------------
(* Handlers *)

Init == HIdle /\ fin = <<>> /\ fout = <<>> /\ fout2 = <<>> /\ fpc = "off"

Finished == pc \in {"done", "raised"}

\* an exception raised inside handle_image's try block is caught; anywhere
\* else it leaves the handler
OnRaise(k) == IF k = "photo" THEN "img_except" ELSE "raised"

Call(op, a, ok) == calls' = Append(calls, [op |-> op, chat |-> chat, arg |-> a, ok |-> ok])

Goto(ok, next) == /\ pc' = IF ok THEN next ELSE OnRaise(kind)
                  /\ raisedAt' = IF ok \/ raisedAt # "none" THEN raisedAt ELSE pc

\* run_polling hands the next update to its handler once the previous
\* handler has left; nothing of an event outlives its handler.  Only
\* handle_text reads the chat type, so only its events vary it.
Dispatch(k, c, ct, m, a, p, first) ==
    /\ kind' = k /\ chat' = c /\ chatType' = ct /\ msg' = m /\ args' = a /\ photo' = p
    /\ pc' = first
    /\ text' = <<>> /\ img_bytes' = <<>> /\ ans' = None /\ formatted' = <<>>
    /\ calls' = <<>> /\ raisedAt' = "none"
    /\ UNCHANGED fvars

HandlerExit ==
    /\ Finished
    /\ kind' = "none" /\ pc' = "idle" /\ chat' = 0 /\ chatType' = "private"
    /\ msg' = <<>> /\ args' = <<>> /\ photo' = <<>> /\ text' = <<>>
    /\ img_bytes' = <<>> /\ ans' = None /\ formatted' = <<>>
    /\ calls' = <<>> /\ raisedAt' = "none"
    /\ UNCHANGED fvars

RecvStart ==
    /\ pc = "idle"
    /\ \E c \in Chats :
          Dispatch("start", c, "private", <<>>, <<>>, <<>>, "start_reply")

RecvSolve ==
    /\ pc = "idle"
    /\ \E c \in Chats, a \in ArgLists :
          Dispatch("solve", c, "private", <<>>, a, <<>>, "solve_join")

RecvText ==
    /\ pc = "idle"
    /\ \E c \in Chats, ct \in ChatTypes, m \in Messages :
          Dispatch("text", c, ct, m, <<>>, <<>>, "text_gate")

RecvPhoto ==
    /\ pc = "idle"
    /\ \E c \in Chats, p \in PhotoLists :
          Dispatch("photo", c, "private", <<>>, <<>>, p, "img_select")

\* start
StartReply(ok) ==
    /\ pc = "start_reply"
    /\ Call("reply", StartMsg, ok)
    /\ Goto(ok, "done")
    /\ UNCHANGED <<kind, chat, chatType, msg, args, photo, text, img_bytes, ans, formatted>>
    /\ UNCHANGED fvars

\* solve_cmd
SolveJoin ==
    /\ pc = "solve_join"
    /\ text' = Join(args)
    /\ pc' = IF text' = <<>> THEN "solve_usage" ELSE "solve_typing"
    /\ UNCHANGED <<kind, chat, chatType, msg, args, photo, img_bytes, ans, formatted, calls, raisedAt>>
    /\ UNCHANGED fvars

SolveUsage(ok) ==
    /\ pc = "solve_usage"
    /\ Call("reply", UsageMsg, ok)
    /\ Goto(ok, "done")
    /\ UNCHANGED <<kind, chat, chatType, msg, args, photo, text, img_bytes, ans, formatted>>
    /\ UNCHANGED fvars

SolveTyping(ok) ==
    /\ pc = "solve_typing"
    /\ Call("typing", <<>>, ok)
    /\ Goto(ok, "solve_backend")
    /\ UNCHANGED <<kind, chat, chatType, msg, args, photo, text, img_bytes, ans, formatted>>
    /\ UNCHANGED fvars

SolveBackend(r) ==
    /\ pc = "solve_backend"
    /\ Call("generate_text", text, r.ok)
    /\ ans' = r.text
    /\ Goto(r.ok, "solve_format")
    /\ UNCHANGED <<kind, chat, chatType, msg, args, photo, text, img_bytes, formatted>>
    /\ UNCHANGED fvars

SolveFormat ==
    /\ pc = "solve_format"
    /\ formatted' = IF ans = None THEN formatted ELSE format_answer(ans)
    /\ Goto(ans # None, "solve_reply")
    /\ UNCHANGED <<kind, chat, chatType, msg, args, photo, text, img_bytes, ans, calls>>
    /\ UNCHANGED fvars

SolveReply(ok) ==
    /\ pc = "solve_reply"
    /\ Call("reply", formatted, ok)
    /\ Goto(ok, "done")
    /\ UNCHANGED <<kind, chat, chatType, msg, args, photo, text, img_bytes, ans, formatted>>
    /\ UNCHANGED fvars

\* handle_text
\* variant: str.replace(old, new, 1)
RECURSIVE ReplaceFirst(_, _, _)
ReplaceFirst(s, old, new) ==
    IF Len(s) < Len(old) THEN s
    ELSE IF StartsWith(s, old)
         THEN new \o SubSeq(s, Len(old) + 1, Len(s))
         ELSE <<Head(s)>> \o ReplaceFirst(Tail(s), old, new)

GroupQuestionFirstOnly(m, mention) == Strip(ReplaceFirst(m, mention, <<>>))

GroupQuestion(m, mention) == Strip(Replace(m, mention, <<>>))

\* variant: the mention is required in every chat type
TextGateMentionOnly ==
    /\ pc = "text_gate"
    /\ IF ~Contains(msg, Mention)
       THEN text' = msg /\ pc' = "done"
       ELSE text' = GroupQuestion(msg, Mention) /\ pc' = "text_typing"
    /\ UNCHANGED <<kind, chat, chatType, msg, args, photo, img_bytes, ans, formatted, calls, raisedAt>>
    /\ UNCHANGED fvars

TextGate ==
    /\ pc = "text_gate"
    /\ IF chatType \in {"group", "supergroup"}
       THEN IF ~Contains(msg, Mention)
            THEN text' = msg /\ pc' = "done"
            ELSE text' = GroupQuestion(msg, Mention) /\ pc' = "text_typing"
       ELSE text' = msg /\ pc' = "text_typing"
    /\ UNCHANGED <<kind, chat, chatType, msg, args, photo, img_bytes, ans, formatted, calls, raisedAt>>
    /\ UNCHANGED fvars

\* variant: a failure of the typing signal is swallowed
TextTypingBestEffort(ok) ==
    /\ pc = "text_typing"
    /\ Call("typing", <<>>, ok)
    /\ pc' = "text_backend"
    /\ UNCHANGED <<kind, chat, chatType, msg, args, photo, text, img_bytes, ans, formatted, raisedAt>>
    /\ UNCHANGED fvars

TextTyping(ok) ==
    /\ pc = "text_typing"
    /\ Call("typing", <<>>, ok)
    /\ Goto(ok, "text_backend")
    /\ UNCHANGED <<kind, chat, chatType, msg, args, photo, text, img_bytes, ans, formatted>>
    /\ UNCHANGED fvars

\* variant: a backend failure is caught and answered with a fixed text
TextBackendReported(r) ==
    /\ pc = "text_backend"
    /\ Call("generate_text", text, r.ok)
    /\ ans' = IF r.ok THEN r.text ELSE FailMsg
    /\ pc' = "text_format"
    /\ UNCHANGED <<kind, chat, chatType, msg, args, photo, text, img_bytes, formatted, raisedAt>>
    /\ UNCHANGED fvars

TextBackend(r) ==
    /\ pc = "text_backend"
    /\ Call("generate_text", text, r.ok)
    /\ ans' = r.text
    /\ Goto(r.ok, "text_format")
    /\ UNCHANGED <<kind, chat, chatType, msg, args, photo, text, img_bytes, formatted>>
    /\ UNCHANGED fvars

TextFormat ==
    /\ pc = "text_format"
    /\ formatted' = IF ans = None THEN formatted ELSE format_answer(ans)
    /\ Goto(ans # None, "text_reply")
    /\ UNCHANGED <<kind, chat, chatType, msg, args, photo, text, img_bytes, ans, calls>>
    /\ UNCHANGED fvars

TextReply(ok) ==
    /\ pc = "text_reply"
    /\ Call("reply", formatted, ok)
    /\ Goto(ok, "done")
    /\ UNCHANGED <<kind, chat, chatType, msg, args, photo, text, img_bytes, ans, formatted>>
    /\ UNCHANGED fvars

\* handle_image
ImgSelect ==
    /\ pc = "img_select"
    /\ Goto(photo # <<>>, "img_get_file")
    /\ UNCHANGED <<kind, chat, chatType, msg, args, photo, text, img_bytes, ans, formatted, calls>>
    /\ UNCHANGED fvars

ImgGetFile(ok) ==
    /\ pc = "img_get_file"
    /\ Call("get_file", <<>>, ok)
    /\ Goto(ok, "img_download")
    /\ UNCHANGED <<kind, chat, chatType, msg, args, photo, text, img_bytes, ans, formatted>>
    /\ UNCHANGED fvars

ImgDownload(ok) ==
    /\ pc = "img_download"
    /\ Call("download", <<>>, ok)
    /\ img_bytes' = IF ok THEN photo[Len(photo)] ELSE img_bytes
    /\ Goto(ok, "img_typing")
    /\ UNCHANGED <<kind, chat, chatType, msg, args, photo, text, ans, formatted>>
    /\ UNCHANGED fvars

ImgTyping(ok) ==
    /\ pc = "img_typing"
    /\ Call("typing", <<>>, ok)
    /\ Goto(ok, "img_backend")
    /\ UNCHANGED <<kind, chat, chatType, msg, args, photo, text, img_bytes, ans, formatted>>
    /\ UNCHANGED fvars

ImgBackend(r) ==
    /\ pc = "img_backend"
    /\ Call("generate_image", to_jpeg(img_bytes), r.ok)
    /\ ans' = r.text
    /\ Goto(r.ok, "img_format")
    /\ UNCHANGED <<kind, chat, chatType, msg, args, photo, text, img_bytes, formatted>>
    /\ UNCHANGED fvars

ImgFormat ==
    /\ pc = "img_format"
    /\ formatted' = IF ans = None THEN formatted ELSE format_answer(ans)
    /\ Goto(ans # None, "img_reply")
    /\ UNCHANGED <<kind, chat, chatType, msg, args, photo, text, img_bytes, ans, calls>>
    /\ UNCHANGED fvars

\* variant: the failure message is sent from a finally clause
ImgReplyThenReport(ok) ==
    /\ pc = "img_reply"
    /\ Call("reply", formatted, ok)
    /\ pc' = "img_except"
    /\ raisedAt' = IF ok THEN raisedAt ELSE pc
    /\ UNCHANGED <<kind, chat, chatType, msg, args, photo, text, img_bytes, ans, formatted>>
    /\ UNCHANGED fvars

ImgReply(ok) ==
    /\ pc = "img_reply"
    /\ Call("reply", formatted, ok)
    /\ Goto(ok, "done")
    /\ UNCHANGED <<kind, chat, chatType, msg, args, photo, text, img_bytes, ans, formatted>>
    /\ UNCHANGED fvars

\* the except clause: a failure of its own reply_text is not caught
ImgExcept(ok) ==
    /\ pc = "img_except"
    /\ Call("reply", FailMsg, ok)
    /\ pc' = IF ok THEN "done" ELSE "raised"
    /\ UNCHANGED <<kind, chat, chatType, msg, args, photo, text, img_bytes, ans, formatted, raisedAt>>
    /\ UNCHANGED fvars

Next ==
    \/ RecvStart
    \/ RecvSolve
    \/ RecvText
    \/ RecvPhoto
    \/ \E ok \in BOOLEAN : StartReply(ok)
    \/ SolveJoin
    \/ \E ok \in BOOLEAN : SolveUsage(ok)
    \/ \E ok \in BOOLEAN : SolveTyping(ok)
    \/ \E r \in BackendResults : SolveBackend(r)
    \/ SolveFormat
    \/ \E ok \in BOOLEAN : SolveReply(ok)
    \/ TextGate
    \/ \E ok \in BOOLEAN : TextTyping(ok)
    \/ \E r \in BackendResults : TextBackend(r)
    \/ TextFormat
    \/ \E ok \in BOOLEAN : TextReply(ok)
    \/ ImgSelect
    \/ \E ok \in BOOLEAN : ImgGetFile(ok)
    \/ \E ok \in BOOLEAN : ImgDownload(ok)
    \/ \E ok \in BOOLEAN : ImgTyping(ok)
    \/ \E r \in BackendResults : ImgBackend(r)
    \/ ImgFormat
    \/ \E ok \in BOOLEAN : ImgReply(ok)
    \/ \E ok \in BOOLEAN : ImgExcept(ok)
    \/ HandlerExit

Spec == Init /\ [][Next]_vars

--------------------------------------------------------------------------
(* Views of the call log *)

Replies == SelectSeq(calls, LAMBDA c : c.op = "reply")

Delivered == SelectSeq(calls, LAMBDA c : c.op = "reply" /\ c.ok)

BackendCalls == SelectSeq(calls, LAMBDA c : c.op \in {"generate_text", "generate_image"})

TypingCalls == SelectSeq(calls, LAMBDA c : c.op = "typing")

--------------------------------------------------------------------------
(* Vocabulary of the properties, stated by positions rather than by the    *)
(* scans the program uses                                                  *)

InGroup == chatType \in {"group", "supergroup"}

HasMention(m) == \E i \in 1..(Len(m) - Len(BOT_USERNAME)) : m[i] = "@" /\ SubSeq(m, i + 1, i + Len(BOT_USERNAME)) = BOT_USERNAME

Addressed == ~InGroup \/ HasMention(msg)

TypingSent == \E i \in 1..Len(calls) : calls[i].op = "typing" /\ calls[i].ok

\* positions of m lying inside an occurrence of sub
Covered(m, sub) == {i \in 1..Len(m) : \E st \in 1..i : i < st + Len(sub) /\ st + Len(sub) - 1 <= Len(m) /\ SubSeq(m, st, st + Len(sub) - 1) = sub}

\* m restricted to the positions in K, in order
Restrict(m, K) == [j \in 1..Cardinality(K) |-> m[CHOOSE i \in K : Cardinality({k \in K : k <= i}) = j]]

WithoutOccurrences(m, sub) == Restrict(m, (1..Len(m)) \ Covered(m, sub))

Trimmed(m) ==
    LET ink == {i \in 1..Len(m) : m[i] \notin {" ", NL}}
    IN IF ink = {} THEN <<>>
       ELSE SubSeq(m, CHOOSE i \in ink : \A k \in ink : i <= k, CHOOSE i \in ink : \A k \in ink : k <= i)

\* str.split(" ")
RECURSIVE SplitOnSpace(_)
SplitOnSpace(t) ==
    IF \A i \in 1..Len(t) : t[i] # " " THEN <<t>>
    ELSE LET cut == CHOOSE i \in 1..Len(t) : t[i] = " " /\ \A k \in 1..(i - 1) : t[k] # " "
         IN <<SubSeq(t, 1, cut - 1)>> \o SplitOnSpace(SubSeq(t, cut + 1, Len(t)))

ExampleHandle == <<"m", "y", "b", "o", "t">>

ExampleMsg == <<"@", "m", "y", "b", "o", "t", " ", "W", "h", "a", "t", " ", "i", "s", " ", "2", "+", "2", "?", " ", "(", "1", "m", ")">>

ExampleQuestion == <<"W", "h", "a", "t", " ", "i", "s", " ", "2", "+", "2", "?", " ", "(", "1", "m", ")">>

--------------------------------------------------------------------------

\* C1 (as stated): whenever a step of handle_image raises, the user
\* receives exactly "Image processing failed." and no failure leaves the
\* handler, also when the failing step is a reply_text call.
C1_FailureAlwaysReported ==
    (kind = "photo" /\ Finished /\ raisedAt # "none") =>
        /\ pc = "done"
        /\ Len(Delivered) = 1
        /\ Delivered[1].arg = FailMsg

\* C2: at most one reply is delivered per event, whatever steps fail; in
\* particular never both the formatted answer and the failure message.
C2_AtMostOneReply == Len(Delivered) <= 1

\* handle_image called reply_text twice (the answer failed to send, the
\* failure message went out)
C2_Witness ==
    /\ kind = "photo" /\ pc = "done"
    /\ Len(Replies) = 2
    /\ Len(Delivered) = 1

\* C3 (as stated): handle_text calls the backend iff the chat is not a
\* group or the text contains the mention.
C3_BackendIffAddressed ==
    (kind = "text" /\ Finished) => ((BackendCalls # <<>>) <=> Addressed)

\* C3 (amended): handle_text sends the typing signal iff the chat is not a
\* group or the text contains the mention, and calls the backend iff
\* moreover the typing signal succeeded; an unaddressed group message makes
\* no call at all; a direct message whose typing signal succeeded is
\* forwarded to text-mode generation, mention or not.
C3_BackendIffAddressedAndTyping ==
    (kind = "text" /\ Finished) =>
        /\ (TypingCalls # <<>>) <=> Addressed
        /\ (BackendCalls # <<>>) <=> (Addressed /\ TypingSent)
        /\ ~Addressed => (calls = <<>> /\ pc = "done")
        /\ (~InGroup /\ TypingSent) => (Len(BackendCalls) = 1 /\ BackendCalls[1].op = "generate_text")

\* a group message without the mention has been dropped silently
C3_Witness ==
    /\ kind = "text" /\ pc = "done"
    /\ InGroup /\ ~HasMention(msg)
    /\ Contains(msg, <<"@">>)

\* C4 (as stated): with no arguments solve_cmd replies the usage text and
\* makes no typing signal and no backend call; with arguments it calls the
\* backend exactly once with the arguments joined by single spaces.
C4_UsageOrOneCall ==
    (kind = "solve" /\ Finished) =>
        IF args = <<>>
        THEN /\ Len(calls) = 1
             /\ calls[1].op = "reply" /\ calls[1].arg = UsageMsg
        ELSE /\ Len(BackendCalls) = 1
             /\ SplitOnSpace(BackendCalls[1].arg) = args

\* C4 (amended): with no arguments, as stated; with arguments the typing
\* signal is sent first and, if it succeeds, the backend is called exactly
\* once with the arguments joined by single spaces; if it fails the backend
\* is not called.
C4_UsageOrOneCallAfterTyping ==
    (kind = "solve" /\ Finished) =>
        IF args = <<>>
        THEN /\ Len(calls) = 1
             /\ calls[1].op = "reply" /\ calls[1].arg = UsageMsg
        ELSE /\ calls[1].op = "typing"
             /\ Len(BackendCalls) = (IF calls[1].ok THEN 1 ELSE 0)
             /\ \A i \in 1..Len(BackendCalls) :
                    /\ BackendCalls[i].op = "generate_text"
                    /\ SplitOnSpace(BackendCalls[i].arg) = args

\* /solve with two arguments reached the backend
C4_Witness ==
    /\ kind = "solve" /\ Finished
    /\ Len(args) = 2 /\ args[1] # args[2]
    /\ Len(BackendCalls) = 1

\* C7: for a group message with the mention, the question passed to the
\* backend is the message without the characters of any occurrence of the
\* mention, trimmed; in a direct chat it is the message itself.
C7_QuestionText ==
    /\ (kind = "text" /\ BackendCalls # <<>>) =>
           BackendCalls[1].arg = (IF InGroup THEN Trimmed(WithoutOccurrences(msg, Mention)) ELSE msg)
    /\ GroupQuestion(ExampleMsg, <<"@">> \o ExampleHandle) = ExampleQuestion

\* a group message with two mentions and text around them reached the
\* backend
C7_Witness ==
    /\ kind = "text" /\ InGroup /\ BackendCalls # <<>>
    /\ Cardinality(Covered(msg, Mention)) = 2 * Len(Mention)
    /\ BackendCalls[1].arg # <<>>

\* C8: undecodable bytes come back from to_jpeg unchanged, and solve_image
\* forwards them to the backend in a single call.
C8_UndecodablePassthrough ==
    (kind = "photo" /\ TypingSent /\ pc # "img_backend" /\ ~Decodable(img_bytes)) =>
        /\ Len(BackendCalls) = 1
        /\ BackendCalls[1].op = "generate_image"
        /\ BackendCalls[1].arg = img_bytes

\* a non-empty undecodable download has been forwarded
C8_Witness ==
    /\ kind = "photo" /\ pc = "img_format"
    /\ img_bytes # <<>> /\ ~Decodable(img_bytes)
    /\ Len(BackendCalls) = 1

\* C9: a backend call is preceded, in the same handler execution, by a
\* successful typing signal to the same chat; there is at most one backend
\* call per event; after a failed typing signal there is none.
C9_TypingBeforeBackend ==
    /\ \A i \in 1..Len(calls) :
           calls[i].op \in {"generate_text", "generate_image"} =>
               \E j \in 1..(i - 1) : calls[j].op = "typing" /\ calls[j].ok /\ calls[j].chat = calls[i].chat
    /\ Len(BackendCalls) <= 1
    /\ (\E j \in 1..Len(calls) : calls[j].op = "typing" /\ ~calls[j].ok) => BackendCalls = <<>>

C9_Witness ==
    /\ kind = "photo" /\ pc = "done"
    /\ Len(BackendCalls) = 1
    /\ chat = 2

\* C10: in solve_cmd and handle_text a failed backend call leaves the
\* handler as an unhandled failure: handling is over, no reply was sent or
\* attempted, and the backend was called once only.
C10_TextBackendFailurePropagates ==
    (kind \in {"solve", "text"} /\ \E i \in 1..Len(calls) : calls[i].op = "generate_text" /\ ~calls[i].ok) =>
        /\ pc = "raised"
        /\ Replies = <<>>
        /\ Len(BackendCalls) = 1

C10_Witness ==
    /\ kind = "text" /\ pc = "raised"
    /\ Len(BackendCalls) = 1 /\ ~BackendCalls[1].ok

--------------------------------------------------------------------------

\* C5: the output of format_answer holds none of the three bullet glyphs
\* and no run of three or more newlines.
C5_NoBulletsNoTripleNewline ==
    fpc # "in" =>
        /\ \A i \in 1..Len(fout) : fout[i] \notin {BULLET, BLACK_CIRCLE, SMALL_SQUARE}
        /\ \A i \in 1..(Len(fout) - 2) : ~(fout[i] = NL /\ fout[i + 1] = NL /\ fout[i + 2] = NL)

\* an input with a bullet and a run of five inner newlines (the collapsing
\* loop needs a second pass) has been formatted
C5_Witness ==
    /\ fpc = "once"
    /\ \E i \in 1..Len(fin) : fin[i] \in {BULLET, BLACK_CIRCLE, SMALL_SQUARE}
    /\ Contains(Strip(fin), Newlines(5))

\* C6: format_answer is idempotent.
C6_Idempotent == fpc = "twice" => fout2 = fout

C6_Witness ==
    /\ fpc = "twice"
    /\ fout # fin
    /\ Contains(Strip(fin), Newlines(5))
    /\ LStrip(fin) # fin

====
